---- MODULE Spec2Model ----
(***************************************************************************)
(* Model of libtransformer.ExtractTensor: one instance with its two        *)
(* attributes (flatten, shape) and the calls made on it.  An array is a    *)
(* pair (shape, data) with the data in row-major (C) order, as numpy keeps *)
(* it; a collection (pandas Series) is a sequence of arrays.               *)
(***************************************************************************)
EXTENDS Integers, Sequences, FiniteSets, TLC

\* Bounds of the explored inputs.
MaxRank == 2     \* entries and shapes have 0..MaxRank axes
MaxExt  == 2     \* every extent is in 1..MaxExt
MaxLen  == 2     \* a collection has 0..MaxLen entries
MaxCells == 2    \* an entry of a caller's collection has at most MaxCells cells

VARIABLES
    shape,       \* self.shape
    flatten,     \* self.flatten
    X,           \* argument of the last transform call
    out,         \* list returned by the last transform call (<<>> if it raised)
    status,      \* "none" while the caller holds no result; after transform "ok"
                 \* or the exception raised; "fit" / "get_shape" after those calls
    shape0,      \* self.shape when the last transform call started
    given,       \* the shape argument the instance was constructed with
    Xafter,      \* the caller's collection as it is when the call has ended
    got          \* value returned by the last get_shape call

vars == <<shape, flatten, X, out, status, shape0, given, Xafter, got>>

\* RemoveOutliers (libtransformer.py): one instance and the last transform call.
VARIABLES
    filter_dict, \* self.filter_dict
    D,           \* dataset passed to the last transform call
    Dout,        \* dataset it returned
    Dafter,      \* the caller's dataset as it is when the call has ended
    Dstatus      \* "none", "ok" or the exception raised

rovars == <<filter_dict, D, Dout, Dafter, Dstatus>>

\* ViewCV (libscore.py): one instance and the last method call.
VARIABLES
    cv_results,       \* self.estimator.cv_results_, one row per candidate
    best_parameters,  \* self.best_parameters
    cvcall,           \* method called last ("none" if the caller holds no result)
    cvstatus,         \* "none", "ok" or the exception raised
    cvret             \* value returned

cvvars == <<cv_results, best_parameters, cvcall, cvstatus, cvret>>

\* create_logfile (liblog.py): the files, the clock and the logging registry.
VARIABLES
    filename,     \* the filename every call is made with
    platform,     \* os.name: "posix" or "nt"
    now,          \* gmtime(), in seconds
    fs,           \* the regular files: path -> content (the call that made it)
    loggers,      \* logging's registry: stamp -> files its handlers have open
    logcalls,     \* number of calls made so far
    logstatus     \* "none", "ok" or the exception raised by the last call

logvars == <<filename, platform, now, fs, loggers, logcalls, logstatus>>

----------------------------------------------------------------------------
\* Values of self.shape: None, a tuple, or the float nan that Series.max()
\* returns for an empty Series.
None     == [k |-> "None",  t |-> <<>>]
NaN      == [k |-> "nan",   t |-> <<>>]
Tuple(t) == [k |-> "tuple", t |-> t]

IsTuple(s) == s.k = "tuple"

RECURSIVE Prod(_)
Prod(s) == IF s = <<>> THEN 1 ELSE Head(s) * Prod(Tail(s))

Range(f) == {f[i] : i \in DOMAIN f}

Tuples(r) == [1..r -> 1..MaxExt]
Shapes    == UNION {Tuples(r) : r \in 0..MaxRank}

\* An input entry: cells numbered 1, 2, ... in row-major order, so that every
\* cell of an entry is told apart from the others and from the padding.
Ramp(shp) == [shape |-> shp, data |-> [k \in 1..Prod(shp) |-> k]]

Arrays      == {Ramp(s) : s \in {t \in Shapes : Prod(t) <= MaxCells}}
\* Shapes an instance is constructed with: up to twice the cells of an entry.
GivenShapes == {t \in Shapes : Prod(t) <= 2 * MaxCells}

Collections == UNION {[1..n -> Arrays] : n \in 0..MaxLen}

----------------------------------------------------------------------------
\* numpy

NpShape(s) == s.shape

\* 0-based multi-index of the 0-based row-major position k in an array of
\* shape shp, and back.
Unravel(k, shp) ==
    [i \in 1..Len(shp) |-> (k \div Prod(SubSeq(shp, i + 1, Len(shp)))) % shp[i]]

RECURSIVE Ravel(_, _)
Ravel(idx, shp) ==
    IF idx = <<>> THEN 0
    ELSE Ravel(SubSeq(idx, 1, Len(idx) - 1), SubSeq(shp, 1, Len(shp) - 1)) * shp[Len(shp)]
         + idx[Len(idx)]

\* Constant-mode padding: before[i] zero cells in front of axis i and after[i]
\* behind it; the cells of s keep their relative positions.
NpPadCells(s, before, after) ==
    LET old == s.shape
        new == [i \in 1..Len(old) |-> before[i] + old[i] + after[i]]
    IN  [shape |-> new,
         data  |-> [k \in 1..Prod(new) |->
                      LET idx == Unravel(k - 1, new)
                          src == [i \in 1..Len(old) |-> idx[i] - before[i]]
                      IN  IF \A i \in 1..Len(old) : src[i] >= 0 /\ src[i] < old[i]
                          THEN s.data[Ravel(src, old) + 1]
                          ELSE 0]]

NpPadBA_Swapped(s, before, after) == NpPadCells(s, after, before)

\* np.pad(s, [(before[i], after[i])], mode='constant') with one pair per axis.
NpPadBA(s, before, after) == NpPadCells(s, before, after)

\* np.ndarray.flatten: the cells in row-major order as one axis.
NpFlatten(s) == [shape |-> <<Prod(s.shape)>>, data |-> s.data]

\* Python's ordering of tuples (lexicographic, a proper prefix is smaller).
TupleLT(a, b) ==
    \E i \in 1..Len(b) :
        /\ \A j \in 1..(i - 1) : j <= Len(a) /\ a[j] = b[j]
        /\ i - 1 <= Len(a)
        /\ (i > Len(a) \/ a[i] < b[i])

SeriesMax_EmptyTuple(ts) ==
    IF Len(ts) = 0 THEN Tuple(<<>>)
    ELSE Tuple(CHOOSE m \in Range(ts) : \A t \in Range(ts) : ~TupleLT(m, t))

\* pandas Series.max() of a Series of tuples: nan when empty, else the
\* greatest tuple in Python's ordering.
SeriesMax(ts) ==
    IF Len(ts) = 0 THEN NaN
    ELSE Tuple(CHOOSE m \in Range(ts) : \A t \in Range(ts) : ~TupleLT(m, t))

\* np.stack(values): needs at least one array and equal shapes.
NpStack(xs) ==
    IF Len(xs) = 0 THEN [err |-> "ValueError", val |-> <<>>]
    ELSE IF \E i, j \in 1..Len(xs) : NpShape(xs[i]) # NpShape(xs[j])
         THEN [err |-> "ValueError", val |-> <<>>]
         ELSE [err |-> "ok", val |-> xs]

NpPad_Clip(s, after) ==
    LET rank == Len(NpShape(s))
        amt  == [i \in 1..Len(after) |-> IF after[i] < 0 THEN 0 ELSE after[i]]
    IN  IF Len(after) = rank
        THEN [err |-> "ok", val |-> NpPadBA(s, [i \in 1..rank |-> 0], amt)]
        ELSE IF Len(after) = 1
        THEN [err |-> "ok",
              val |-> NpPadBA(s, [i \in 1..rank |-> 0], [i \in 1..rank |-> amt[1]])]
        ELSE [err |-> "ValueError", val |-> s]

\* np.pad's handling of pad_width (numpy _as_pairs): negative amounts are
\* rejected, a single pair is used for every axis, one pair per axis is used
\* as given, and any other number of pairs cannot be broadcast.
NpPad(s, after) ==
    LET rank == Len(NpShape(s)) IN
    IF \E i \in 1..Len(after) : after[i] < 0
    THEN [err |-> "ValueError", val |-> s]
    ELSE IF Len(after) = rank
    THEN [err |-> "ok", val |-> NpPadBA(s, [i \in 1..rank |-> 0], after)]
    ELSE IF Len(after) = 1
    THEN [err |-> "ok",
          val |-> NpPadBA(s, [i \in 1..rank |-> 0], [i \in 1..rank |-> after[1]])]
    ELSE [err |-> "ValueError", val |-> s]

----------------------------------------------------------------------------
\* ExtractTensor.transform

offset_NoSubtract(s, shp) ==
    IF Len(NpShape(s)) < Len(shp)
    THEN [err |-> "IndexError", val |-> <<>>]
    ELSE [err |-> "ok", val |-> [i \in 1..Len(shp) |-> shp[i]]]

\* offset = lambda s: [(0, self.shape[i] - np.shape(s)[i]) for i in range(len(self.shape))]
\* (the second components; the first are all 0).  np.shape(s)[i] raises
\* IndexError when s has fewer axes than self.shape.
offset(s, shp) ==
    IF Len(NpShape(s)) < Len(shp)
    THEN [err |-> "IndexError", val |-> <<>>]
    ELSE [err |-> "ok", val |-> [i \in 1..Len(shp) |-> shp[i] - NpShape(s)[i]]]

\* lambda s: np.pad(s, offset(s), mode='constant')
PadEntry(s, shp) ==
    LET o == offset(s, shp) IN
    IF o.err # "ok" THEN [err |-> o.err, val |-> s] ELSE NpPad(s, o.val)

\* x.apply(lambda s: np.pad(...)): every entry padded in order; the first
\* exception propagates.
PadAll(xs, shp) ==
    LET rs  == [i \in 1..Len(xs) |-> PadEntry(xs[i], shp)]
        bad == {i \in 1..Len(xs) : rs[i].err # "ok"}
    IN  IF bad = {}
        THEN [err |-> "ok", val |-> [i \in 1..Len(xs) |-> rs[i].val]]
        ELSE [err |-> rs[CHOOSE i \in bad : \A j \in bad : i <= j].err, val |-> <<>>]

ResolveShape_Remeasure(shp, xs) ==
    SeriesMax([i \in 1..Len(xs) |-> NpShape(xs[i])])

\* self.shape after lines 98-99.
ResolveShape(shp, xs) ==
    IF shp = None THEN SeriesMax([i \in 1..Len(xs) |-> NpShape(xs[i])]) ELSE shp

transform_FlattenAlways(shp, fl, xs) ==
    LET s1 == ResolveShape(shp, xs) IN
    IF ~IsTuple(s1)
    THEN [shape |-> s1, err |-> "TypeError", val |-> <<>>]
    ELSE
      LET padded == IF Len(s1.t) > 0
                    THEN PadAll(xs, s1.t)
                    ELSE [err |-> "ok", val |-> xs]
      IN  IF padded.err # "ok"
          THEN [shape |-> s1, err |-> padded.err, val |-> <<>>]
          ELSE
            LET x2 == IF fl
                      THEN [i \in 1..Len(padded.val) |-> NpFlatten(padded.val[i])]
                      ELSE padded.val
                st == NpStack(x2)
            IN  [shape |-> s1, err |-> st.err, val |-> st.val]

\* The whole call: the value self.shape is left with, the exception raised
\* ("ok" if none) and the list returned.
transform(shp, fl, xs) ==
    LET s1 == ResolveShape(shp, xs) IN
    IF ~IsTuple(s1)
    THEN [shape |-> s1, err |-> "TypeError", val |-> <<>>]   \* len(nan)
    ELSE
      LET padded == IF Len(s1.t) > 0
                    THEN PadAll(xs, s1.t)
                    ELSE [err |-> "ok", val |-> xs]
      IN  IF padded.err # "ok"
          THEN [shape |-> s1, err |-> padded.err, val |-> <<>>]
          ELSE
            LET x2 == IF fl /\ Len(s1.t) > 0
                      THEN [i \in 1..Len(padded.val) |-> NpFlatten(padded.val[i])]
                      ELSE padded.val
                st == NpStack(x2)
            IN  [shape |-> s1, err |-> st.err, val |-> st.val]

CallerSeries_InPlace(xs, r) == IF r.err = "ok" THEN r.val ELSE xs

\* The caller's Series once the call with result r has ended: transform works
\* on x = X.copy() and only rebinds x (x = x.apply(...)), and np.pad,
\* flatten and np.stack build new arrays, so X keeps the entries it had.
CallerSeries(xs, r) == xs

----------------------------------------------------------------------------
\* RemoveOutliers

MaxVal  == 1     \* cell values and interval ends are in 0..MaxVal
MaxRows == 2     \* a dataset has 0..MaxRows rows

NoFilter == [k |-> "None", f |-> <<>>]
Filter(f) == [k |-> "dict", f |-> f]

\* Column names of the class docstring's example.
FilterCols == {"h11", "h21"}
Vals       == 0..MaxVal
Intervals  == Vals \X Vals

\* A dataset: its columns and its rows in order, each row with its index label.
NoData == [cols |-> {}, rows |-> <<>>]
DatasetsOver(cs) ==
    UNION {{[cols |-> cs, rows |-> [i \in 1..n |-> [idx |-> i, v |-> vs[i]]]] :
               vs \in [1..n -> [cs -> Vals]]} : n \in 0..MaxRows}
Datasets == DatasetsOver({"h11", "h21"}) \cup DatasetsOver({"h11"})
Filters  == {NoFilter} \cup
            {Filter(f) : f \in UNION {[ks -> Intervals] : ks \in SUBSET FilterCols}}

KeepLow_Strict(rows, key, low) == SelectSeq(rows, LAMBDA r : r.v[key] > low)

\* x.loc[x[key] >= low]
KeepLow(rows, key, low) == SelectSeq(rows, LAMBDA r : r.v[key] >= low)

\* x.loc[x[key] <= high]
KeepHigh(rows, key, high) == SelectSeq(rows, LAMBDA r : r.v[key] <= high)

\* The loop over the keys of filter_dict; x[key] raises KeyError for a
\* column the dataset does not have.
RECURSIVE FilterLoop(_, _, _, _)
FilterLoop(cols, rows, f, keys) ==
    IF keys = {} THEN [err |-> "ok", val |-> rows]
    ELSE LET key == CHOOSE k \in keys : TRUE IN
         IF key \notin cols THEN [err |-> "KeyError", val |-> <<>>]
         ELSE FilterLoop(cols,
                         KeepHigh(KeepLow(rows, key, f[key][1]), key, f[key][2]),
                         f, keys \ {key})

\* RemoveOutliers.transform
ROtransform(fd, ds) ==
    IF fd = NoFilter THEN [err |-> "ok", val |-> ds]
    ELSE LET r == FilterLoop(ds.cols, ds.rows, fd.f, DOMAIN fd.f)
         IN  [err |-> r.err,
              val |-> IF r.err = "ok" THEN [cols |-> ds.cols, rows |-> r.val] ELSE NoData]

RO_Quiet ==
    /\ filter_dict = NoFilter
    /\ D = NoData
    /\ Dout = NoData
    /\ Dafter = NoData
    /\ Dstatus = "none"

\* RemoveOutliers(filter_dict)
ROInit == \E fd \in Filters :
    /\ filter_dict = fd
    /\ D = NoData
    /\ Dout = NoData
    /\ Dafter = NoData
    /\ Dstatus = "none"

\* transform(X): x = X.copy() is filtered and returned, X itself is not touched.
ROTransform ==
    /\ Dstatus = "none"
    /\ \E ds \in Datasets : \E r \in {ROtransform(filter_dict, ds)} :
          /\ D' = ds
          /\ Dout' = r.val
          /\ Dafter' = ds
          /\ Dstatus' = r.err
    /\ UNCHANGED filter_dict
    /\ UNCHANGED <<vars, cvvars, logvars>>

\* fit(X, y): returns self.
ROFit ==
    /\ Dstatus = "none"
    /\ Dstatus' = "fit"
    /\ UNCHANGED <<filter_dict, D, Dout, Dafter>>
    /\ UNCHANGED <<vars, cvvars, logvars>>

\* The caller lets go of the datasets of the last call.
RORelease ==
    /\ Dstatus # "none"
    /\ D' = NoData
    /\ Dout' = NoData
    /\ Dafter' = NoData
    /\ Dstatus' = "none"
    /\ UNCHANGED filter_dict
    /\ UNCHANGED <<vars, cvvars, logvars>>

----------------------------------------------------------------------------
\* ViewCV

MaxCand  == 2    \* the search has 1..MaxCand candidates
MaxScore == 2    \* mean and std of the test score are in 0..MaxScore

\* Python values a ViewCV method handles or returns.
NoValue      == [k |-> "none",   rows |-> <<>>, n |-> 0]
Frame(rows)  == [k |-> "frame",  rows |-> rows, n |-> 0]
Number(n)    == [k |-> "number", rows |-> <<>>, n |-> n]
BoundMethod  == [k |-> "method", rows |-> <<>>, n |-> 0]

\* cv_results_ of a fitted search: candidate i has params i.
CvResults ==
    UNION {[1..n -> [params : {0}, mean_test_score : 0..MaxScore,
                     std_test_score : 0..MaxScore]] : n \in 1..MaxCand}
Numbered(rows) == [i \in 1..Len(rows) |-> [rows[i] EXCEPT !.params = i]]

\* best_params_: the params of the first candidate with the greatest mean.
BestParams(rows) ==
    rows[CHOOSE i \in 1..Len(rows) :
            /\ \A j \in 1..Len(rows) : rows[j].mean_test_score <= rows[i].mean_test_score
            /\ \A j \in 1..(i - 1) : rows[j].mean_test_score < rows[i].mean_test_score
        ].params

\* results(): pd.DataFrame(self.estimator.cv_results_)
results(rows) == Frame(rows)

\* best_results(): df.loc[df['params'] == self.best_parameters]
best_results(rows, best) ==
    Frame(SelectSeq(results(rows).rows, LAMBDA r : r.params = best))

\* obj.loc[:, col].values[0]: only a DataFrame has .loc.
LocFirst(obj, col) ==
    IF obj.k # "frame" THEN [err |-> "AttributeError", val |-> NoValue]
    ELSE IF Len(obj.rows) = 0 THEN [err |-> "IndexError", val |-> NoValue]
    ELSE [err |-> "ok", val |-> Number(obj.rows[1][col])]

\* test_mean(): self.best_results.loc[:, 'mean_test_score'].values[0], where
\* self.best_results is the bound method itself (it is not called).
test_mean(rows, best) == LocFirst(BoundMethod, "mean_test_score")

\* test_std(): self.best_results.loc[:, 'std_test_score'].values[0], likewise.
test_std(rows, best) == LocFirst(BoundMethod, "std_test_score")

CV_Quiet ==
    /\ cv_results = <<>>
    /\ best_parameters = 0
    /\ cvcall = "none"
    /\ cvstatus = "none"
    /\ cvret = NoValue

\* ViewCV(estimator)
CVInit == \E rows \in CvResults :
    /\ cv_results = Numbered(rows)
    /\ best_parameters = BestParams(Numbered(rows))
    /\ cvcall = "none"
    /\ cvstatus = "none"
    /\ cvret = NoValue

CVReturn(name, r) ==
    /\ cvcall = "none"
    /\ cvcall' = name
    /\ cvstatus' = r.err
    /\ cvret' = r.val
    /\ UNCHANGED <<cv_results, best_parameters>>
    /\ UNCHANGED <<vars, rovars, logvars>>

CVBestResults ==
    CVReturn("best_results",
             [err |-> "ok", val |-> best_results(cv_results, best_parameters)])

CVTestMean == CVReturn("test_mean", test_mean(cv_results, best_parameters))

CVTestStd == CVReturn("test_std", test_std(cv_results, best_parameters))

\* The caller lets go of the value returned.
CVRelease ==
    /\ cvcall # "none"
    /\ cvcall' = "none"
    /\ cvstatus' = "none"
    /\ cvret' = NoValue
    /\ UNCHANGED <<cv_results, best_parameters>>
    /\ UNCHANGED <<vars, rovars, logvars>>

----------------------------------------------------------------------------
\* create_logfile

MaxTime  == 2    \* the clock runs over seconds 0..MaxTime
MaxCalls == 3    \* at most MaxCalls calls of create_logfile

\* A path is a sequence of components; a component is a name with the
\* time stamps that were prefixed to it, latest first.
Comp(n)   == [stamps |-> <<>>, name |-> n]
BareName  == <<Comp("run.log")>>                 \* "run.log"
PathName  == <<Comp("logs"), Comp("run.log")>>   \* "logs/run.log"
Filenames == {BareName, PathName}
Platforms == {"posix", "nt"}

\* The directories that exist: the working directory and logs/.
Dirs == {<<>>, <<Comp("logs")>>}
Parent(f) == SubSeq(f, 1, Len(f) - 1)

\* strftime('%Y%m%d.%H%M%S_', gmtime()): one stamp per second.
Ctime(t) == <<t>>

\* ctime + filename: the stamp goes in front of the whole string, that is
\* in front of its first component.
Strcat(ctime, f) == <<[f[1] EXCEPT !.stamps = ctime \o @]>> \o Tail(f)

NoFiles == [f \in {} |-> 0]

\* os.rename(src, dst)
os_rename(files, src, dst, plat) ==
    IF Parent(dst) \notin Dirs THEN [err |-> "FileNotFoundError", fs |-> files]
    ELSE IF plat = "nt" /\ dst \in DOMAIN files
         THEN [err |-> "FileExistsError", fs |-> files]
    ELSE [err |-> "ok",
          fs  |-> [f \in (DOMAIN files \ {src}) \cup {dst} |->
                      IF f = dst THEN files[src] ELSE files[f]]]

\* logging.FileHandler(filename): open(filename, 'a')
FileHandler(files, f, id) ==
    IF Parent(f) \notin Dirs THEN [err |-> "FileNotFoundError", fs |-> files, id |-> 0]
    ELSE IF f \in DOMAIN files THEN [err |-> "ok", fs |-> files, id |-> files[f]]
    ELSE [err |-> "ok",
          fs  |-> [g \in DOMAIN files \cup {f} |-> IF g = f THEN id ELSE files[g]],
          id  |-> id]

\* create_logfile(filename, with_stdout = with_stdout), as call number id
create_logfile(files, lg, t, f, with_stdout, id, plat) ==
    LET rot == IF f \in DOMAIN files
               THEN os_rename(files, f, Strcat(Ctime(t), f), plat)
               ELSE [err |-> "ok", fs |-> files]
        han == FileHandler(rot.fs, f, id)
    IN  IF rot.err # "ok" THEN [err |-> rot.err, fs |-> rot.fs, loggers |-> lg]
        ELSE IF han.err # "ok" THEN [err |-> han.err, fs |-> han.fs, loggers |-> lg]
        ELSE [err     |-> IF with_stdout THEN "NameError" ELSE "ok",
              fs      |-> han.fs,
              loggers |-> [lg EXCEPT ![t] = Append(@, han.id)]]

LOG_Quiet ==
    /\ filename = BareName
    /\ platform = "posix"
    /\ now = 0
    /\ fs = NoFiles
    /\ loggers = [t \in 0..MaxTime |-> <<>>]
    /\ logcalls = 0
    /\ logstatus = "none"

\* The process starts: there may already be a log at filename.
LOGInit ==
    /\ filename \in Filenames
    /\ platform \in Platforms
    /\ now = 0
    /\ fs \in {NoFiles, [f \in {filename} |-> 0]}
    /\ loggers = [t \in 0..MaxTime |-> <<>>]
    /\ logcalls = 0
    /\ logstatus = "none"

CreateLogfile ==
    /\ logcalls < MaxCalls
    /\ \E with_stdout \in BOOLEAN :
         \E r \in {create_logfile(fs, loggers, now, filename, with_stdout,
                                  logcalls + 1, platform)} :
            /\ fs' = r.fs
            /\ loggers' = r.loggers
            /\ logstatus' = r.err
    /\ logcalls' = logcalls + 1
    /\ UNCHANGED <<filename, platform, now>>
    /\ UNCHANGED <<vars, rovars, cvvars>>

\* A second passes.
Tick ==
    /\ now < MaxTime
    /\ now' = now + 1
    /\ UNCHANGED <<filename, platform, fs, loggers, logcalls, logstatus>>
    /\ UNCHANGED <<vars, rovars, cvvars>>

----------------------------------------------------------------------------
\* ExtractTensor(flatten, shape)
Init ==
    /\ flatten \in BOOLEAN
    /\ shape \in {None} \cup {Tuple(t) : t \in GivenShapes}
    /\ X = <<>>
    /\ out = <<>>
    /\ status = "none"
    /\ shape0 = shape
    /\ given = shape
    /\ Xafter = <<>>
    /\ got = None
    /\ RO_Quiet
    /\ CV_Quiet
    /\ LOG_Quiet

Call(xs) ==
    \E r \in {transform(shape, flatten, xs)} :
    /\ shape0' = shape
    /\ X' = xs
    /\ shape' = r.shape
    /\ status' = r.err
    /\ out' = r.val
    /\ Xafter' = CallerSeries(xs, r)
    /\ UNCHANGED <<flatten, given, got>>
    /\ UNCHANGED <<rovars, cvvars, logvars>>

\* transform(X) on a collection of the caller's.
Transform == status = "none" /\ \E xs \in Collections : Call(xs)

\* transform(X) on the list the previous call returned.
Retransform == status = "ok" /\ Call(out)

\* The caller lets go of the collection it passed and of the list (or the
\* exception) it got back; the instance keeps self.shape and self.flatten.
Release ==
    /\ status # "none"
    /\ X' = <<>>
    /\ out' = <<>>
    /\ status' = "none"
    /\ shape0' = shape
    /\ Xafter' = <<>>
    /\ got' = None
    /\ UNCHANGED <<shape, flatten, given>>
    /\ UNCHANGED <<rovars, cvvars, logvars>>

Fit_Reset ==
    /\ status = "none"
    /\ status' = "fit"
    /\ shape' = None
    /\ UNCHANGED <<flatten, X, out, shape0, given, Xafter, got>>
    /\ UNCHANGED <<rovars, cvvars, logvars>>

\* fit(X, y): returns self and touches nothing.
Fit ==
    /\ status = "none"
    /\ status' = "fit"
    /\ UNCHANGED <<shape, flatten, X, out, shape0, given, Xafter, got>>
    /\ UNCHANGED <<rovars, cvvars, logvars>>

\* get_shape(): returns self.shape.
GetShape ==
    /\ status = "none"
    /\ status' = "get_shape"
    /\ got' = shape
    /\ UNCHANGED <<shape, flatten, X, out, shape0, given, Xafter>>
    /\ UNCHANGED <<rovars, cvvars, logvars>>

Next == Transform \/ Retransform \/ Release \/ Fit \/ GetShape

Spec == Init /\ [][Next]_vars

\* The ExtractTensor variables while another component is exercised.
ET_Quiet ==
    /\ shape = None /\ flatten = FALSE /\ X = <<>> /\ out = <<>>
    /\ status = "none" /\ shape0 = None /\ given = None
    /\ Xafter = <<>> /\ got = None

SpecROInit == ROInit /\ ET_Quiet /\ CV_Quiet /\ LOG_Quiet
SpecRONext == ROTransform \/ ROFit \/ RORelease
SpecRO     == SpecROInit /\ [][SpecRONext]_<<rovars, vars>>

SpecCVInit == CVInit /\ ET_Quiet /\ RO_Quiet /\ LOG_Quiet
SpecCVNext == CVBestResults \/ CVTestMean \/ CVTestStd \/ CVRelease
SpecCV     == SpecCVInit /\ [][SpecCVNext]_<<cvvars, vars>>

SpecLOGInit == LOGInit /\ ET_Quiet /\ RO_Quiet /\ CV_Quiet
SpecLOGNext == CreateLogfile \/ Tick
SpecLOG     == SpecLOGInit /\ [][SpecLOGNext]_<<logvars, vars>>

----------------------------------------------------------------------------
\* Vocabulary of the properties.

Called == status \notin {"none", "fit", "get_shape"}
Failed == status \notin {"none", "ok", "fit", "get_shape"}

Rank(s) == Len(s.shape)

\* Every entry of xs has r axes.
UniformRank(xs, r) == \A i \in 1..Len(xs) : Rank(xs[i]) = r

\* Greatest extent of the entries of xs along axis a.
AxisMax(xs, a) ==
    CHOOSE m \in {xs[i].shape[a] : i \in 1..Len(xs)} :
        \A i \in 1..Len(xs) : xs[i].shape[a] <= m

\* Some entry of xs is longer than shp along an axis both have.
Exceeds(xs, shp) ==
    \E i \in 1..Len(xs) : \E a \in 1..Len(shp) :
        a <= Rank(xs[i]) /\ xs[i].shape[a] > shp[a]

\* s with its cells laid out in row-major order over the axes shp.
NpReshape(s, shp) == [shape |-> shp, data |-> s.data]

\* 0-based multi-indices of an array of shape shp, and the cell at one.
Indices(shp)   == {Unravel(k, shp) : k \in 0..(Prod(shp) - 1)}
CellAt(s, idx) == s.data[Ravel(idx, s.shape) + 1]

\* o holds the cells of s in its low-index corner and zero everywhere else.
PrefixBlock(s, o) ==
    /\ Rank(o) = Rank(s)
    /\ \A idx \in Indices(o.shape) :
          CellAt(o, idx) = IF \A a \in 1..Rank(s) : idx[a] < s.shape[a]
                           THEN CellAt(s, idx) ELSE 0

----------------------------------------------------------------------------
\* C1: a call that finds no shape remembered, on a non-empty collection of
\* uniform rank R, leaves as TargetShape the per-axis maximum of the entries'
\* extents.
C1_PerAxisMax ==
    \A r \in 0..MaxRank :
        (Called /\ shape0 = None /\ Len(X) > 0 /\ UniformRank(X, r)) =>
            /\ IsTuple(shape)
            /\ Len(shape.t) = r
            /\ \A a \in 1..r : shape.t[a] = AxisMax(X, a)

\* C2: after a successful unflattened call on entries of rank R > 0, every
\* output entry has exactly the TargetShape, holds its input entry in the
\* low-index corner and is zero elsewhere.
C2_PrefixBlock ==
    (status = "ok" /\ ~flatten /\ Len(shape.t) > 0
        /\ \A i \in 1..Len(X) : Rank(X[i]) > 0) =>
        /\ Len(out) = Len(X)
        /\ \A i \in 1..Len(X) :
              /\ out[i].shape = shape.t
              /\ PrefixBlock(X[i], out[i])

\* C3: every call uses the shape the instance already holds (given at
\* construction or left by an earlier call) and measures the collection only
\* when it holds none; the shape it used is the one held afterwards, and a
\* held shape is never replaced by a later call.
C3_StickyShape ==
    [][ /\ Called' => shape' = IF shape # None THEN shape
                              ELSE SeriesMax([i \in 1..Len(X') |-> X'[i].shape])
        /\ shape # None => shape' = shape
        /\ (status' = "ok" /\ ~flatten /\ Len(shape'.t) > 0
               /\ UniformRank(X', Len(shape'.t)))
             => \A i \in 1..Len(out') : out'[i].shape = shape'.t
      ]_vars

C3_Witness ==
    /\ given = None /\ Called /\ IsTuple(shape0) /\ shape = shape0
    /\ Len(X) > 0
    /\ SeriesMax([i \in 1..Len(X) |-> X[i].shape]) # shape0

\* C4: a call in which some entry is longer than the TargetShape along an
\* axis raises and returns nothing, wherever the TargetShape came from.
C4_NegativePaddingFails ==
    (Called /\ IsTuple(shape) /\ Exceeds(X, shape.t)) =>
        (Failed /\ out = <<>>)

C4_Witness ==
    /\ given = None /\ IsTuple(shape0) /\ shape = shape0
    /\ Exceeds(X, shape.t) /\ Failed
    /\ UniformRank(X, Len(shape.t))

\* C5: a call on a non-empty collection in which some entry's rank is not
\* the rank of the TargetShape (so also one whose entries differ in rank)
\* raises.
C5_RankMismatchFails ==
    (Called /\ IsTuple(shape) /\ \E i \in 1..Len(X) : Rank(X[i]) # Len(shape.t)) =>
        Failed

\* C6: a call on an empty collection that finds no shape remembered raises,
\* returns nothing and leaves no TargetShape (no tuple) behind.
C6_EmptyFails ==
    (Called /\ shape0 = None /\ Len(X) = 0) =>
        (Failed /\ out = <<>> /\ ~IsTuple(shape))

C6_Witness == Called /\ shape0 = None /\ Len(X) = 0 /\ status = "TypeError"

\* C7: a call that raises returns nothing and leaves the remembered shape as
\* it found it.
C7_FailedCallKeepsShape ==
    Failed => (out = <<>> /\ shape = shape0)

\* C8 as stated: whenever the TargetShape has the entries' rank and
\* dominates them, the first d1*...*dR cells of an unflattened output entry in
\* row-major order are the input entry's cells in row-major order, and the
\* remaining cells are zero.
C8_RowMajorPrefix ==
    (status = "ok" /\ ~flatten /\ UniformRank(X, Len(shape.t))) =>
        \A i \in 1..Len(X) :
            \A k \in 1..Len(out[i].data) :
                out[i].data[k] = IF k <= Len(X[i].data) THEN X[i].data[k] ELSE 0

\* The TargetShape equals the extents of s on every axis after the first.
SameTrailing(s, shp) == \A a \in 2..Len(shp) : s.shape[a] = shp[a]

\* C8 amended: whenever the TargetShape has the entries' rank and dominates
\* them, the output entry has the TargetShape, its cell at every multi-index
\* inside the input entry's extents is the input's cell at that multi-index
\* and every other cell is zero; its first d1*...*dR cells in row-major order
\* are the input's cells in row-major order (the rest zero) if the
\* TargetShape equals the entry's extents on every axis after the first.
C8_PrefixBlockRoundTrip ==
    (status = "ok" /\ ~flatten /\ UniformRank(X, Len(shape.t))) =>
        \A i \in 1..Len(X) :
            /\ out[i].shape = shape.t
            /\ PrefixBlock(X[i], out[i])
            /\ SameTrailing(X[i], shape.t) =>
                  \A k \in 1..Len(out[i].data) :
                      out[i].data[k] =
                          IF k <= Len(X[i].data) THEN X[i].data[k] ELSE 0

C8_Witness ==
    /\ status = "ok" /\ ~flatten /\ Len(shape.t) = 2 /\ UniformRank(X, 2)
    /\ \E i \in 1..Len(X) :
          /\ X[i].shape[1] > 1
          /\ X[i].shape[2] < shape.t[2]
    /\ \E i \in 1..Len(X) :
          /\ X[i].shape[1] < shape.t[1]
          /\ SameTrailing(X[i], shape.t)

\* C9: after a successful flattened call with a TargetShape of rank R > 0,
\* every output entry is one axis of product(TargetShape) cells, and put back
\* into the TargetShape in row-major order it is the entry the unflattened
\* call returns for the same collection and TargetShape.
C9_FlattenConsistent ==
    (status = "ok" /\ flatten /\ Len(shape.t) > 0) =>
        \A i \in 1..Len(X) :
            /\ out[i].shape = <<Prod(shape.t)>>
            /\ NpReshape(out[i], shape.t) = transform(shape0, FALSE, X).val[i]

\* C10: a call on the list a successful unflattened call returned, with the
\* TargetShape unchanged, succeeds and returns that list again.
C10_Idempotent ==
    [][ (status = "ok" /\ ~flatten /\ X' = out) =>
            (status' = "ok" /\ out' = out /\ shape' = shape) ]_vars

\* The collection passed was a returned one (it has padding) and came back.
C10_Witness ==
    /\ status = "ok" /\ ~flatten /\ out = X
    /\ \E i \in 1..Len(X) : \E k \in 1..Len(X[i].data) : X[i].data[k] = 0

C13_RankZero ==
    (Called /\ IsTuple(shape) /\ shape.t = <<>>) =>
        /\ status = "ok" => out = X
        /\ LET other == transform(shape0, ~flatten, X)
           IN  other.err = status /\ other.val = out

C13_Witness ==
    /\ status = "ok" /\ flatten /\ shape = Tuple(<<>>)
    /\ Len(X) = MaxLen /\ UniformRank(X, 0)

----------------------------------------------------------------------------
\* r is in every range of filter f.
InRange(r, f) == \A key \in DOMAIN f : f[key][1] <= r.v[key] /\ r.v[key] <= f[key][2]

----------------------------------------------------------------------------
\* The row of cv_results whose params are the best parameters.
BestRow == cv_results[CHOOSE i \in 1..Len(cv_results) :
                          cv_results[i].params = best_parameters]

\* C15: test_mean returns the mean_test_score and test_std the std_test_score
\* of the row of the best parameters, and neither raises.
C15_TestScoreOfBest ==
    /\ cvcall = "test_mean" =>
          (cvstatus = "ok" /\ cvret = Number(BestRow.mean_test_score))
    /\ cvcall = "test_std" =>
          (cvstatus = "ok" /\ cvret = Number(BestRow.std_test_score))

----------------------------------------------------------------------------
\* The name a log rotated at second t is to have: filename with the stamp
\* in front of the file's name, in the directory of filename.
Rotated(f, t) == [f EXCEPT ![Len(f)].stamps = Ctime(t) \o @]

\* C16: a call of create_logfile loses no log: every log there was is still
\* there, the log that was at filename is now under a stamped name next to
\* it, and a fresh log is open at filename.
C16_RotationKeepsLogs ==
    [][ logcalls' # logcalls =>
          /\ \A g \in DOMAIN fs : \E h \in DOMAIN fs' : fs'[h] = fs[g]
          /\ filename \in DOMAIN fs =>
                \E t \in 0..MaxTime :
                    /\ Rotated(filename, t) \in DOMAIN fs'
                    /\ fs'[Rotated(filename, t)] = fs[filename]
          /\ filename \in DOMAIN fs'
          /\ fs'[filename] = logcalls'
          /\ \E t \in 0..MaxTime :
                Len(loggers'[t]) > 0 /\ loggers'[t][Len(loggers'[t])] = logcalls'
      ]_logvars

====
